---- MODULE Spec2Model ----
(***************************************************************************)
(* cosmic-cipher: the deterministic password synthesizer                   *)
(* (generatePasswordFromSeed and its seed-stream generator) as a state     *)
(* machine.  One call is run step by step: decode the seed, validate the   *)
(* parameters, draw the per-class minimums, fill, shuffle, return.         *)
(*                                                                         *)
(* Strings are sequences of one-character strings, so that indexing,       *)
(* concatenation and split("")/join("") are the sequence operations.       *)
(***************************************************************************)
EXTENDS Integers, Sequences, FiniteSets, TLC

VARIABLES
    pc,             \* position of the call in generatePasswordFromSeed
    seed,           \* argument: the hex seed string
    params,         \* argument: GenerateParams
    seedBytes,      \* createRandomGenerator: decoded seed
    position,       \* createRandomGenerator: the closure's position counter
    password,       \* the string built by the minimum and fill loops
    passwordArray,  \* password.split(""), shuffled in place
    i,              \* loop counter of the loop the call is in
    err,            \* message of the Error thrown, "none" when none
    last,           \* observer: outcome of the previous call when it had the same arguments
    drawn,          \* observer: the bytes this call's generator has returned, in order
    randomIndex,    \* the last randomIndex computed, -1 before the first
    j,              \* the last j computed by the shuffle, -1 before the first
    result,         \* the Uint8Array returned by the last randomValues(n) called directly
    parked,         \* a second call, suspended while this one runs; NoFrame when none
    formData,       \* Home: useState formData
    characterTypes, \* Home: useState characterTypes
    pageResult,     \* Home: useState result (NoResult is null)
    isLoading,      \* Home: useState isLoading
    error,          \* Home: useState error ("none" is null)
    handler,        \* Home: the handleGenerate invocation in flight and what it closed over
    edits,          \* number of form edits made so far
    request         \* GET route: the request being served

\* The variables of one call.
frame == <<pc, seed, params, seedBytes, position, password, passwordArray, i, err, last,
           drawn, randomIndex, j>>

\* What no statement of generatePasswordFromSeed touches.
home == <<formData, characterTypes, pageResult, isLoading, error, handler, edits>>

outer == <<result, parked, home, request>>

vars == <<frame, outer>>

----------------------------------------------------------------------------
(* Bounds of the explored inputs *)

MaxLen == 4
MaxMin == 2
\* Direct use of a generator: bytes drawn in all, and the largest n of randomValues(n)
MaxDraws == 6
MaxN == 3
\* Longest password of two calls run against each other
MaxPairLen == 2
\* Longest sequence of form edits of one page session
MaxEdits == 2

----------------------------------------------------------------------------
(* CHARSETS *)

CHARSETS ==
    [ uppercase |-> << "A","B","C","D","E","F","G","H","I","J","K","L","M",
                       "N","P","Q","R","S","T","U","V","W","X","Y","Z" >>,
      lowercase |-> << "a","b","c","d","e","f","g","h","i","j","k","l","m",
                       "n","o","p","q","r","s","t","u","v","w","x","y","z" >>,
      numbers   |-> << "2","3","4","5","6","7","8","9" >>,
      symbols   |-> << "!","@","#","$","%","^","&","*","+","-","=" >> ]

\* The canonical class order: the insertion order of availableCharsets.
ClassOrder == << "uppercase", "lowercase", "numbers", "symbols" >>

Range(s) == { s[k] : k \in DOMAIN s }

----------------------------------------------------------------------------
(* Buffer.from(seed, "hex"): two hex digits per byte, an odd trailing digit  *)
(* is dropped, decoding stops at the first pair that is not two hex digits.  *)

Unhex ==
    [ c \in { "0","1","2","3","4","5","6","7","8","9",
              "a","b","c","d","e","f","A","B","C","D","E","F" } |->
        CASE c = "0" -> 0  [] c = "1" -> 1  [] c = "2" -> 2  [] c = "3" -> 3
          [] c = "4" -> 4  [] c = "5" -> 5  [] c = "6" -> 6  [] c = "7" -> 7
          [] c = "8" -> 8  [] c = "9" -> 9
          [] c \in {"a","A"} -> 10 [] c \in {"b","B"} -> 11
          [] c \in {"c","C"} -> 12 [] c \in {"d","D"} -> 13
          [] c \in {"e","E"} -> 14 [] c \in {"f","F"} -> 15 ]

IsHexPair(s, k) == s[2*k - 1] \in DOMAIN Unhex /\ s[2*k] \in DOMAIN Unhex

DecodedLength(s) ==
    LET n == Len(s) \div 2
    IN  CHOOSE m \in 0..n :
            /\ \A k \in 1..m : IsHexPair(s, k)
            /\ (m = n \/ ~IsHexPair(s, m + 1))

HexDecode(s) ==
    [ k \in 1..DecodedLength(s) |-> Unhex[s[2*k - 1]] * 16 + Unhex[s[2*k]] ]

----------------------------------------------------------------------------
(* createRandomGenerator *)

StalePosition(prev) == prev
\* let position = 0: every generator starts at 0, whatever an earlier call left.
StartPosition(prev) == 0

StuckPosition(pos) == pos
\* position++
NextPosition(pos) == pos + 1

ReadByteFirst(bytes, pos) == IF Len(bytes) = 0 THEN 0 ELSE bytes[1]
\* result[0] of randomValues(1): seedBytes[position % seedBytes.length].  For an
\* empty seedBytes the index is NaN, the element undefined, and the Uint8Array
\* stores 0.
ReadByte(bytes, pos) ==
    IF Len(bytes) = 0 THEN 0 ELSE bytes[(pos % Len(bytes)) + 1]

\* The loop of the closure, run n times from position pos: the bytes it stores ...
RECURSIVE RandomValues(_, _, _)
RandomValues(bytes, pos, n) ==
    IF n <= 0 THEN << >>
    ELSE << ReadByte(bytes, pos) >> \o RandomValues(bytes, NextPosition(pos), n - 1)

\* ... and the position it leaves.
RECURSIVE PositionAfter(_, _)
PositionAfter(pos, n) ==
    IF n <= 0 THEN pos ELSE PositionAfter(NextPosition(pos), n - 1)

----------------------------------------------------------------------------
(* generatePasswordFromSeed: parameters and validation *)

Include(p) ==
    [ uppercase |-> p.includeUpper, lowercase |-> p.includeLower,
      numbers   |-> p.includeNumbers, symbols |-> p.includeSymbols ]

Minimum(p) ==
    [ uppercase |-> p.minUpper, lowercase |-> p.minLower,
      numbers   |-> p.minNumbers, symbols |-> p.minSymbols ]

\* Object.keys(availableCharsets), in insertion order.
AvailableCharsets(p) == SelectSeq(ClassOrder, LAMBDA k : Include(p)[k])

AllCharsetsJoined(p) ==
    CHARSETS.uppercase \o CHARSETS.lowercase \o CHARSETS.numbers \o CHARSETS.symbols
AllAvailableCharsReversed(p) ==
    (IF p.includeSymbols THEN CHARSETS.symbols ELSE << >>) \o
    (IF p.includeNumbers THEN CHARSETS.numbers ELSE << >>) \o
    (IF p.includeLower THEN CHARSETS.lowercase ELSE << >>) \o
    (IF p.includeUpper THEN CHARSETS.uppercase ELSE << >>)
\* Object.values(availableCharsets).join("")
AllAvailableChars(p) ==
    (IF p.includeUpper THEN CHARSETS.uppercase ELSE << >>) \o
    (IF p.includeLower THEN CHARSETS.lowercase ELSE << >>) \o
    (IF p.includeNumbers THEN CHARSETS.numbers ELSE << >>) \o
    (IF p.includeSymbols THEN CHARSETS.symbols ELSE << >>)

TotalMin(p) == p.minUpper + p.minLower + p.minNumbers + p.minSymbols

RemainingLengthShort(p) == p.length - TotalMin(p) - 1
RemainingLengthWhole(p) == p.length
\* const remainingLength = length - totalMin
RemainingLength(p) == p.length - TotalMin(p)

ErrNoClass   == "At least one character type must be selected"
ErrExceed    == "Minimum requirements exceed password length"
ErrUpper     == "Uppercase minimum requirement specified but uppercase not included"
ErrLower     == "Lowercase minimum requirement specified but lowercase not included"
ErrNumbers   == "Numbers minimum requirement specified but numbers not included"
ErrSymbols   == "Symbols minimum requirement specified but symbols not included"
ErrTypeError == "TypeError: Cannot read properties of undefined (reading 'length')"

\* Variants of the validation block with its checks in another order.
ValidationErrorExceedFirst(p) ==
    IF TotalMin(p) > p.length THEN ErrExceed
    ELSE IF Len(AvailableCharsets(p)) = 0 THEN ErrNoClass
    ELSE IF p.minUpper > 0 /\ ~p.includeUpper THEN ErrUpper
    ELSE IF p.minLower > 0 /\ ~p.includeLower THEN ErrLower
    ELSE IF p.minNumbers > 0 /\ ~p.includeNumbers THEN ErrNumbers
    ELSE IF p.minSymbols > 0 /\ ~p.includeSymbols THEN ErrSymbols
    ELSE "none"

ValidationErrorClassFirst(p) ==
    IF Len(AvailableCharsets(p)) = 0 THEN ErrNoClass
    ELSE IF p.minUpper > 0 /\ ~p.includeUpper THEN ErrUpper
    ELSE IF p.minLower > 0 /\ ~p.includeLower THEN ErrLower
    ELSE IF p.minNumbers > 0 /\ ~p.includeNumbers THEN ErrNumbers
    ELSE IF p.minSymbols > 0 /\ ~p.includeSymbols THEN ErrSymbols
    ELSE IF TotalMin(p) > p.length THEN ErrExceed
    ELSE "none"

ValidationErrorLowerFirst(p) ==
    IF Len(AvailableCharsets(p)) = 0 THEN ErrNoClass
    ELSE IF TotalMin(p) > p.length THEN ErrExceed
    ELSE IF p.minLower > 0 /\ ~p.includeLower THEN ErrLower
    ELSE IF p.minUpper > 0 /\ ~p.includeUpper THEN ErrUpper
    ELSE IF p.minNumbers > 0 /\ ~p.includeNumbers THEN ErrNumbers
    ELSE IF p.minSymbols > 0 /\ ~p.includeSymbols THEN ErrSymbols
    ELSE "none"

ValidationErrorNoUpper(p) ==
    IF Len(AvailableCharsets(p)) = 0 THEN ErrNoClass
    ELSE IF TotalMin(p) > p.length THEN ErrExceed
    ELSE IF p.minLower > 0 /\ ~p.includeLower THEN ErrLower
    ELSE IF p.minNumbers > 0 /\ ~p.includeNumbers THEN ErrNumbers
    ELSE IF p.minSymbols > 0 /\ ~p.includeSymbols THEN ErrSymbols
    ELSE "none"

\* The first throw the parameters reach, "none" when they reach none.
ValidationError(p) ==
    IF Len(AvailableCharsets(p)) = 0 THEN ErrNoClass
    ELSE IF TotalMin(p) > p.length THEN ErrExceed
    ELSE IF p.minUpper > 0 /\ ~p.includeUpper THEN ErrUpper
    ELSE IF p.minLower > 0 /\ ~p.includeLower THEN ErrLower
    ELSE IF p.minNumbers > 0 /\ ~p.includeNumbers THEN ErrNumbers
    ELSE IF p.minSymbols > 0 /\ ~p.includeSymbols THEN ErrSymbols
    ELSE "none"

----------------------------------------------------------------------------
(* Inputs *)

\* Hex seed strings: empty, not hex at all, an odd number of digits, and
\* well-formed seeds of two and three bytes (0x0b selects 'l' in lowercase).
Seeds ==
    { << >>,
      << "z","z" >>,
      << "0","b","f" >>,
      << "0","0","0","0" >>,
      << "f","f","0","b","2","a" >> }

Lengths == 0..MaxLen
Minimums == (-1)..MaxMin

Params ==
    [ length : Lengths,
      minUpper : Minimums, minLower : Minimums,
      minNumbers : Minimums, minSymbols : Minimums,
      includeUpper : BOOLEAN, includeLower : BOOLEAN,
      includeNumbers : BOOLEAN, includeSymbols : BOOLEAN ]

NoParams ==
    [ length |-> 0, minUpper |-> 0, minLower |-> 0, minNumbers |-> 0, minSymbols |-> 0,
      includeUpper |-> FALSE, includeLower |-> FALSE,
      includeNumbers |-> FALSE, includeSymbols |-> FALSE ]

NoCall ==
    [ called |-> FALSE, seed |-> << >>, params |-> NoParams,
      pc |-> "idle", err |-> "none", out |-> << >>, position |-> 0 ]

Finished == pc \in { "done", "error" }

MinStages == { "minUpper", "minLower", "minNumbers", "minSymbols" }

Running == pc \in { "validate", "fill", "shuffle" } \cup MinStages

----------------------------------------------------------------------------
(* The call, step by step *)

\* Home: the initial form.
DefaultFormData ==
    [ length |-> 16, minUpper |-> 2, minLower |-> 2, minNumbers |-> 2, minSymbols |-> 2 ]

DefaultCharacterTypes ==
    [ uppercase |-> TRUE, lowercase |-> TRUE, numbers |-> TRUE, symbols |-> TRUE ]

\* useState<PasswordResult | null>(null)
NoResult == [ shown |-> FALSE, password |-> << >>, seed |-> << >>, usedFallback |-> FALSE ]

\* What getRandomSeed resolved to; hasData is false when the body carries no `data`.
NoSeedResult == [ hasData |-> FALSE, data |-> << >>, usedFallback |-> FALSE ]

\* No handleGenerate is in flight.
NoHandler == [ pc |-> "rest", params |-> NoParams, seedResult |-> NoSeedResult ]

\* No request is being served.
NoRequest ==
    [ pc |-> "idle", params |-> NoParams, fetch |-> "none", hasSeed |-> FALSE,
      seed |-> << >>, usedFallback |-> FALSE, local |-> FALSE,
      status |-> 0, body |-> NoResult, message |-> "none" ]

NoFrame == [ pc |-> "none" ]

Init ==
    /\ pc = "idle"
    /\ seed = << >>
    /\ params = NoParams
    /\ seedBytes = << >>
    /\ position = 0
    /\ password = << >>
    /\ passwordArray = << >>
    /\ i = 0
    /\ err = "none"
    /\ last = NoCall
    /\ drawn = << >>
    /\ randomIndex = -1
    /\ j = -1
    /\ result = << >>
    /\ parked = NoFrame
    /\ formData = DefaultFormData
    /\ characterTypes = DefaultCharacterTypes
    /\ pageResult = NoResult
    /\ isLoading = FALSE
    /\ error = "none"
    /\ handler = NoHandler
    /\ edits = 0
    /\ request = NoRequest

\* The state in which generatePasswordFromSeed(s, p) starts: its first statement,
\* createRandomGenerator(seed), makes the generator of this call.
Enter(s, p) ==
    /\ pc' = "validate"
    /\ seed' = s
    /\ params' = p
    /\ seedBytes' = HexDecode(s)
    /\ position' = StartPosition(position)
    /\ password' = << >>
    /\ passwordArray' = << >>
    /\ i' = 0
    /\ err' = "none"
    /\ drawn' = << >>
    /\ randomIndex' = -1
    /\ j' = -1

\* A caller invokes generatePasswordFromSeed(s, p).
Call(s, p) ==
    /\ pc = "idle"
    /\ Enter(s, p)
    /\ last' = NoCall
    /\ UNCHANGED outer

\* Any caller, any arguments.
Invoke == pc = "idle" /\ \E s \in Seeds, p \in Params : Call(s, p)

\* The call that has just ended is made again, with the same arguments.
CallAgain ==
    /\ Finished
    /\ parked = NoFrame
    /\ Enter(seed, params)
    /\ last' = [ called |-> TRUE, seed |-> seed, params |-> params, pc |-> pc,
                 err |-> err, out |-> passwordArray, position |-> position ]
    /\ UNCHANGED outer

\* The frame of a call that has returned or thrown is gone.  The counter of the
\* discarded generator is dead storage: nothing clears it, the next call makes its own.
Discard ==
    /\ pc' = "idle"
    /\ seed' = << >>
    /\ params' = NoParams
    /\ seedBytes' = << >>
    /\ password' = << >>
    /\ passwordArray' = << >>
    /\ i' = 0
    /\ err' = "none"
    /\ last' = NoCall
    /\ drawn' = << >>
    /\ randomIndex' = -1
    /\ j' = -1
    /\ UNCHANGED position

\* The call has returned or thrown; no other call is suspended.
Return ==
    /\ Finished
    /\ parked = NoFrame
    /\ Discard
    /\ UNCHANGED outer

\* The validation block: throws, or reaches `let password = ""`.
Validate ==
    /\ pc = "validate"
    /\ IF ValidationError(params) # "none"
       THEN /\ pc' = "error"
            /\ err' = ValidationError(params)
       ELSE /\ pc' = "minUpper"
            /\ err' = err
    /\ password' = << >>
    /\ i' = 0
    /\ UNCHANGED <<seed, params, seedBytes, position, passwordArray, last,
                   drawn, randomIndex, j>>
    /\ UNCHANGED outer

IndexUnreduced(byte, len) == byte
\* randomValues(1)[0] % alphabet.length
IndexInto(byte, len) == byte % len

\* "undefined", which += appends for a character that is not there.
Undefined == << "u","n","d","e","f","i","n","e","d" >>

\* str[k] as the operand of +=, indices from 0.
CharAt(str, k) == IF k \in 0..(Len(str) - 1) THEN << str[k + 1] >> ELSE Undefined

\* One iteration of a minimum loop: one byte, one character of the class.
\* A class that is not in availableCharsets has no .length to read.
MinStep(stage, key) ==
    /\ pc = stage
    /\ i < Minimum(params)[key]
    /\ IF Include(params)[key]
       THEN /\ randomIndex' = IndexInto(ReadByte(seedBytes, position), Len(CHARSETS[key]))
            /\ password' = password \o CharAt(CHARSETS[key], randomIndex')
            /\ i' = i + 1
            /\ UNCHANGED <<pc, err>>
       ELSE /\ pc' = "error"
            /\ err' = ErrTypeError
            /\ UNCHANGED <<password, i, randomIndex>>
    /\ position' = NextPosition(position)
    /\ drawn' = Append(drawn, ReadByte(seedBytes, position))
    /\ UNCHANGED <<seed, params, seedBytes, passwordArray, last, j>>
    /\ UNCHANGED outer

\* The loop condition fails: on to the next loop.
MinExit(stage, key, next) ==
    /\ pc = stage
    /\ ~(i < Minimum(params)[key])
    /\ pc' = next
    /\ i' = 0
    /\ UNCHANGED <<seed, params, seedBytes, position, password, passwordArray, err, last,
                   drawn, randomIndex, j>>
    /\ UNCHANGED outer

MinUpperStep   == MinStep("minUpper", "uppercase")
MinUpperExit   == MinExit("minUpper", "uppercase", "minLower")
MinLowerStep   == MinStep("minLower", "lowercase")
MinLowerExit   == MinExit("minLower", "lowercase", "minNumbers")
MinNumbersStep == MinStep("minNumbers", "numbers")
MinNumbersExit == MinExit("minNumbers", "numbers", "minSymbols")
MinSymbolsStep == MinStep("minSymbols", "symbols")
MinSymbolsExit == MinExit("minSymbols", "symbols", "fill")

\* One iteration of the fill loop.
FillStep ==
    /\ pc = "fill"
    /\ i < RemainingLength(params)
    /\ randomIndex' = IndexInto(ReadByte(seedBytes, position), Len(AllAvailableChars(params)))
    /\ password' = password \o CharAt(AllAvailableChars(params), randomIndex')
    /\ position' = NextPosition(position)
    /\ drawn' = Append(drawn, ReadByte(seedBytes, position))
    /\ i' = i + 1
    /\ UNCHANGED <<pc, seed, params, seedBytes, passwordArray, err, last, j>>
    /\ UNCHANGED outer

\* The fill loop ends: passwordArray = password.split(""), i = length - 1.
FillExit ==
    /\ pc = "fill"
    /\ ~(i < RemainingLength(params))
    /\ pc' = "shuffle"
    /\ passwordArray' = password
    /\ i' = Len(password) - 1
    /\ UNCHANGED <<seed, params, seedBytes, position, password, err, last,
                   drawn, randomIndex, j>>
    /\ UNCHANGED outer

SwapOverwrite(arr, a, b) == [ arr EXCEPT ![a + 1] = arr[b + 1] ]
\* [arr[a], arr[b]] = [arr[b], arr[a]], indices from 0
Swap(arr, a, b) == [ arr EXCEPT ![a + 1] = arr[b + 1], ![b + 1] = arr[a + 1] ]

\* One iteration of the Fisher-Yates loop.
ShuffleStep ==
    /\ pc = "shuffle"
    /\ i > 0
    /\ j' = ReadByte(seedBytes, position) % (i + 1)
    /\ passwordArray' = Swap(passwordArray, i, j')
    /\ position' = NextPosition(position)
    /\ drawn' = Append(drawn, ReadByte(seedBytes, position))
    /\ i' = i - 1
    /\ UNCHANGED <<pc, seed, params, seedBytes, password, err, last, randomIndex>>
    /\ UNCHANGED outer

\* return passwordArray.join("")
ShuffleExit ==
    /\ pc = "shuffle"
    /\ ~(i > 0)
    /\ pc' = "done"
    /\ UNCHANGED <<seed, params, seedBytes, position, password, passwordArray, i, err, last,
                   drawn, randomIndex, j>>
    /\ UNCHANGED outer

\* The statements of one call, from its validation to its return or throw.
Run ==
    \/ Validate
    \/ MinUpperStep \/ MinUpperExit
    \/ MinLowerStep \/ MinLowerExit
    \/ MinNumbersStep \/ MinNumbersExit
    \/ MinSymbolsStep \/ MinSymbolsExit
    \/ FillStep \/ FillExit
    \/ ShuffleStep \/ ShuffleExit

Next ==
    \/ Invoke
    \/ CallAgain
    \/ Return
    \/ Validate
    \/ MinUpperStep \/ MinUpperExit
    \/ MinLowerStep \/ MinLowerExit
    \/ MinNumbersStep \/ MinNumbersExit
    \/ MinSymbolsStep \/ MinSymbolsExit
    \/ FillStep \/ FillExit
    \/ ShuffleStep \/ ShuffleExit

Spec == Init /\ [][Next]_vars

\* createRandomGenerator(s), called on its own.
MakeGenerator(s) ==
    /\ pc = "idle"
    /\ pc' = "stream"
    /\ seed' = s
    /\ seedBytes' = HexDecode(s)
    /\ position' = StartPosition(position)
    /\ drawn' = << >>
    /\ result' = << >>
    /\ UNCHANGED <<params, password, passwordArray, i, err, last, randomIndex, j, parked,
                   home, request>>

\* randomValues(n) on that generator.
NextBytes(n) ==
    /\ pc = "stream"
    /\ Len(drawn) + n <= MaxDraws
    /\ result' = RandomValues(seedBytes, position, n)
    /\ position' = PositionAfter(position, n)
    /\ drawn' = drawn \o result'
    /\ UNCHANGED <<pc, seed, params, seedBytes, password, passwordArray, i, err, last,
                   randomIndex, j, parked, home, request>>

Generate == pc = "idle" /\ \E s \in Seeds : MakeGenerator(s)

Draw == pc = "stream" /\ \E n \in 0..MaxN : NextBytes(n)

\* Synthesis calls, and generators used directly with any split of the draws.
NextStream == Next \/ Generate \/ Draw

SpecStream == Init /\ [][NextStream]_vars

\* Two calls at once.  JavaScript runs a call to its end, so this is the host the
\* generator would meet if calls could be suspended: a frame holds everything a
\* call owns, its generator's counter included.
ThisFrame ==
    [ pc |-> pc, seed |-> seed, params |-> params, seedBytes |-> seedBytes,
      position |-> position, password |-> password, passwordArray |-> passwordArray,
      i |-> i, err |-> err, last |-> last, drawn |-> drawn,
      randomIndex |-> randomIndex, j |-> j ]

\* A second call came and went.
Over == [ pc |-> "over" ]

SharedCounter(own, shared) == shared
\* `let position` is a local of createRandomGenerator: the counter a resumed call
\* finds is its own, not the one the other call has been advancing.
OwnCounter(own, shared) == own

\* The suspended call takes the processor.
Restore(f) ==
    /\ pc' = f.pc
    /\ seed' = f.seed
    /\ params' = f.params
    /\ seedBytes' = f.seedBytes
    /\ position' = OwnCounter(f.position, position)
    /\ password' = f.password
    /\ passwordArray' = f.passwordArray
    /\ i' = f.i
    /\ err' = f.err
    /\ last' = f.last
    /\ drawn' = f.drawn
    /\ randomIndex' = f.randomIndex
    /\ j' = f.j

PairSeeds == { << "0","b","f" >>, << "f","f","0","b","2","a" >> }

PairParams ==
    [ length : 1..MaxPairLen,
      minUpper : 0..1, minLower : 0..1, minNumbers : { 0 }, minSymbols : { 0 },
      includeUpper : { TRUE }, includeLower : { TRUE },
      includeNumbers : { FALSE }, includeSymbols : BOOLEAN ]

InvokePair == pc = "idle" /\ \E s \in PairSeeds, p \in PairParams : Call(s, p)

\* While a call that has been run alone before is running again, another call starts.
Spawn(s, p) ==
    /\ Running
    /\ last.called
    /\ parked = NoFrame
    /\ parked' = ThisFrame
    /\ Enter(s, p)
    /\ last' = NoCall
    /\ UNCHANGED << result, home, request >>

SpawnAny == \E s \in PairSeeds, p \in PairParams : Spawn(s, p)

\* The running call is suspended and the other one goes on.
Switch ==
    /\ parked \notin { NoFrame, Over }
    /\ Running
    /\ Restore(parked)
    /\ parked' = ThisFrame
    /\ UNCHANGED << result, home, request >>

\* The running call is over; the suspended one goes on.
Resume ==
    /\ parked \notin { NoFrame, Over }
    /\ Finished
    /\ Restore(parked)
    /\ parked' = Over
    /\ UNCHANGED << result, home, request >>

\* Both calls are over.
ReturnPair ==
    /\ Finished
    /\ parked = Over
    /\ Discard
    /\ parked' = NoFrame
    /\ UNCHANGED << result, home, request >>

NextPair ==
    InvokePair \/ CallAgain \/ Return \/ Run \/ SpawnAny \/ Switch \/ Resume \/ ReturnPair

SpecPair == Init /\ [][NextPair]_vars

\* Seeds of the documented size, 256 bits: 64 hex digits.
ZeroSeed32 == [ k \in 1..64 |-> "0" ]
MixedSeed32 == [ k \in 1..64 |-> << "f","f","0","b","2","a" >>[((k - 1) % 6) + 1] ]

\* The form's defaults reduced to one required class, and its neighbours.
ScenarioParams ==
    [ length : { 8 },
      minUpper : 0..2, minLower : 0..1, minNumbers : { 0 }, minSymbols : { 0 },
      includeUpper : { TRUE }, includeLower : { TRUE },
      includeNumbers : { TRUE }, includeSymbols : BOOLEAN ]

InvokeScenario ==
    pc = "idle" /\ \E s \in { ZeroSeed32, MixedSeed32 }, p \in ScenarioParams : Call(s, p)

NextScenario == InvokeScenario \/ CallAgain \/ Return \/ Run

\* Calls with 32-byte seeds and length 8.
SpecScenario == Init /\ [][NextScenario]_vars

HexDigits == << "0","1","2","3","4","5","6","7","8","9","a","b","c","d","e","f" >>

\* 32 bytes that are all different: 00 01 02 ... 1f
CountingSeed32 ==
    [ k \in 1..64 |->
        LET byte == (k - 1) \div 2
        IN  HexDigits[(IF k % 2 = 1 THEN byte \div 16 ELSE byte % 16) + 1] ]

\* Lengths on both sides of half the seed size, and specs around them.
WrapParams ==
    [ length : { 15, 16, 17, 18 },
      minUpper : (-1)..1, minLower : 0..1, minNumbers : { 0 }, minSymbols : { 0 },
      includeUpper : { TRUE }, includeLower : { TRUE },
      includeNumbers : { TRUE }, includeSymbols : BOOLEAN ]

InvokeWrap ==
    pc = "idle" /\ \E s \in { CountingSeed32, MixedSeed32 }, p \in WrapParams : Call(s, p)

NextWrap == InvokeWrap \/ CallAgain \/ Return \/ Run

\* Calls with 32-byte seeds and lengths about 16.
SpecWrap == Init /\ [][NextWrap]_vars

----------------------------------------------------------------------------
(* The page component Home: the form, and handleGenerate around the library call *)

\* parseInt: an optional sign, then the longest run of decimal digits; NaN when
\* there is none.
NaN == [ nan |-> TRUE, value |-> 0 ]

DecimalDigits == { "0", "1", "2", "3", "4", "5", "6", "7", "8", "9" }

RECURSIVE ParseDigits(_, _, _, _)
ParseDigits(t, k, count, value) ==
    IF k <= Len(t) /\ t[k] \in DecimalDigits
    THEN ParseDigits(t, k + 1, count + 1, 10 * value + Unhex[t[k]])
    ELSE [ count |-> count, value |-> value ]

ParseInt(t) ==
    LET signed == Len(t) > 0 /\ t[1] \in { "-", "+" }
        d == ParseDigits(t, IF signed THEN 2 ELSE 1, 0, 0)
    IN  IF d.count = 0 THEN NaN
        ELSE [ nan |-> FALSE, value |-> IF signed /\ t[1] = "-" THEN 0 - d.value ELSE d.value ]

\* x || d on numbers: NaN and 0 are falsy.
OrElse(x, d) == IF x.nan \/ x.value = 0 THEN d ELSE x.value

\* <Slider min={8} max={32} step={1}>
SliderMin == 8
SliderMax == 32

\* The slider positions tried.
SliderValues == { SliderMin, SliderMax }

\* What is typed into a minimum field.  min={0} constrains the spinner and form
\* validation, not the text: "-1" arrives in onChange as it is typed.
MinTexts == { << >>, << "3" >>, << "-", "1" >> }

\* fieldMap of handleCharacterTypeChange
FieldMap ==
    [ uppercase |-> "minUpper", lowercase |-> "minLower",
      numbers |-> "minNumbers", symbols |-> "minSymbols" ]

\* No synchronous code is running and the session has edits left.
CanEdit == pc = "idle" /\ request.pc = "idle" /\ edits < MaxEdits

handleInputChange(field, value) ==
    /\ formData' = [ formData EXCEPT ![field] = value ]
    /\ UNCHANGED characterTypes

handleCharacterTypeChangeOnly(type, checked) ==
    /\ characterTypes' = [ characterTypes EXCEPT ![type] = checked ]
    /\ UNCHANGED formData

handleCharacterTypeChange(type, checked) ==
    /\ characterTypes' = [ characterTypes EXCEPT ![type] = checked ]
    /\ formData' = IF ~checked THEN [ formData EXCEPT ![FieldMap[type]] = 0 ] ELSE formData

Edited ==
    /\ edits' = edits + 1
    /\ UNCHANGED << frame, result, parked, pageResult, isLoading, error, handler, request >>

SliderChange ==
    /\ CanEdit
    /\ \E v \in SliderValues : handleInputChange("length", v)
    /\ Edited

\* onChange of a minimum Input; a disabled Input takes no typing.
MinChange ==
    /\ CanEdit
    /\ \E c \in Range(ClassOrder), t \in MinTexts :
          /\ characterTypes[c]
          /\ handleInputChange(FieldMap[c], OrElse(ParseInt(t), 0))
    /\ Edited

CheckedChange ==
    /\ CanEdit
    /\ \E c \in Range(ClassOrder) : handleCharacterTypeChange(c, ~characterTypes[c])
    /\ Edited

totalMin ==
    (IF characterTypes.uppercase THEN formData.minUpper ELSE 0)
    + (IF characterTypes.lowercase THEN formData.minLower ELSE 0)
    + (IF characterTypes.numbers THEN formData.minNumbers ELSE 0)
    + (IF characterTypes.symbols THEN formData.minSymbols ELSE 0)

isValid ==
    /\ totalMin <= formData.length
    /\ \E c \in Range(ClassOrder) : characterTypes[c]

\* The params object handleGenerate builds from the state its closure holds.
ParamsOf(fd, ct) ==
    [ length |-> fd.length,
      minUpper |-> fd.minUpper, minLower |-> fd.minLower,
      minNumbers |-> fd.minNumbers, minSymbols |-> fd.minSymbols,
      includeUpper |-> ct.uppercase, includeLower |-> ct.lowercase,
      includeNumbers |-> ct.numbers, includeSymbols |-> ct.symbols ]

\* A click on the enabled Generate button: handleGenerate up to its await.
handleGenerate ==
    /\ pc = "idle" /\ request.pc = "idle"
    /\ ~isLoading
    /\ isValid
    /\ isLoading' = TRUE
    /\ error' = "none"
    /\ pageResult' = NoResult
    /\ handler' = [ pc |-> "awaitSeed", params |-> ParamsOf(formData, characterTypes),
                    seedResult |-> NoSeedResult ]
    /\ UNCHANGED << frame, result, parked, formData, characterTypes, edits, request >>

\* The seeds /password-generator/api/random answers with.
PageSeeds == { << "0","b","f" >>, << "f","f","0","b","2","a" >> }

ErrSeedFetch == "Failed to get random seed"
ErrSeedType  == "TypeError: The first argument must be of type string"

\* getRandomSeed resolves with the parsed body.
SeedArrives ==
    /\ handler.pc = "awaitSeed"
    /\ \E has \in BOOLEAN, d \in PageSeeds, f \in BOOLEAN :
          handler' = [ handler EXCEPT !.pc = "resolved",
                         !.seedResult = [ hasData |-> has,
                                          data |-> IF has THEN d ELSE << >>,
                                          usedFallback |-> f ] ]
    /\ UNCHANGED << frame, result, parked, formData, characterTypes, pageResult,
                    isLoading, error, edits, request >>

SeedFailsStillLoading ==
    /\ handler.pc = "awaitSeed"
    /\ error' = ErrSeedFetch
    /\ handler' = NoHandler
    /\ UNCHANGED << frame, result, parked, formData, characterTypes, pageResult,
                    isLoading, edits, request >>

\* getRandomSeed rejects (response not ok, or the fetch itself failed): catch, finally.
SeedFails ==
    /\ handler.pc = "awaitSeed"
    /\ error' = ErrSeedFetch
    /\ isLoading' = FALSE
    /\ handler' = NoHandler
    /\ UNCHANGED << frame, result, parked, formData, characterTypes, pageResult,
                    edits, request >>

\* generatePasswordFromSeed(seedResult.data, {...}) is entered; Buffer.from throws
\* at once when data is undefined.
PageCall ==
    /\ handler.pc = "resolved"
    /\ pc = "idle"
    /\ IF handler.seedResult.hasData
       THEN /\ Enter(handler.seedResult.data, handler.params)
            /\ last' = NoCall
            /\ handler' = [ handler EXCEPT !.pc = "generating" ]
            /\ UNCHANGED << error, isLoading >>
       ELSE /\ error' = ErrSeedType
            /\ isLoading' = FALSE
            /\ handler' = NoHandler
            /\ UNCHANGED frame
    /\ UNCHANGED << result, parked, formData, characterTypes, pageResult, edits, request >>

ResultFlagDropped(pw, seedResult) ==
    [ shown |-> TRUE, password |-> pw, seed |-> seedResult.data, usedFallback |-> FALSE ]

\* setResult({ password, seed: seedResult.data, usedFallback: seedResult.usedFallback })
ResultOf(pw, seedResult) ==
    [ shown |-> TRUE, password |-> pw, seed |-> seedResult.data,
      usedFallback |-> seedResult.usedFallback ]

\* The library call has returned or thrown: setResult or setError, then finally.
\* The handler keeps what it resolved, for the observer.
PageSettle ==
    /\ handler.pc = "generating"
    /\ Finished
    /\ IF pc = "done"
       THEN /\ pageResult' = ResultOf(passwordArray, handler.seedResult)
            /\ UNCHANGED error
       ELSE /\ error' = err
            /\ UNCHANGED pageResult
    /\ isLoading' = FALSE
    /\ handler' = [ handler EXCEPT !.pc = "rest" ]
    /\ Discard
    /\ UNCHANGED << result, parked, formData, characterTypes, edits, request >>

NextPage ==
    \/ SliderChange \/ MinChange \/ CheckedChange
    \/ handleGenerate
    \/ SeedArrives \/ SeedFails
    \/ PageCall
    \/ Run
    \/ PageSettle

SpecPage == Init /\ [][NextPage]_vars

\* What handleGenerate does once started: the promise of getRandomSeed settles,
\* and the synchronous code after the await runs to its end.
Settling == SeedArrives \/ SeedFails \/ PageCall \/ Run \/ PageSettle

\* The page when every started handleGenerate is carried on.
SpecPageFair == SpecPage /\ WF_vars(Settling)

----------------------------------------------------------------------------
(* The GET route: parse, the four 400-checks, the seed or its fallback, the
   route's own generatePasswordFromSeed, the response *)

FalseText == << "f","a","l","s","e" >>

\* Query texts tried; << >> is a parameter that is absent (or empty): the route
\* takes its default then.  "x" is a text parseInt makes NaN of.
LengthTexts == { << >>, << "8" >>, << "7" >>, << "3","3" >>, << "x" >> }
MinimumTexts == { << >>, << "0" >>, << "7" >>, << "-","1" >>, << "x" >> }
IncludeTexts == { << >>, FalseText }

Queries ==
    [ length : LengthTexts,
      minUpper : MinimumTexts, minLower : MinimumTexts,
      minNumbers : MinimumTexts, minSymbols : MinimumTexts,
      includeUpper : IncludeTexts, includeLower : IncludeTexts,
      includeNumbers : IncludeTexts, includeSymbols : IncludeTexts ]

\* parseInt(searchParams.get(name) || dflt)
QueryInt(text, dflt) == ParseInt(IF text = << >> THEN dflt ELSE text)

NumberFields == { "length", "minUpper", "minLower", "minNumbers", "minSymbols" }

QueryDefault(field) == IF field = "length" THEN << "1","6" >> ELSE << "2" >>

\* The params object of the handler.  A field that parsed to NaN is listed in
\* nan and holds 0 in its place.
ParseQuery(q) ==
    [ length |-> QueryInt(q.length, QueryDefault("length")).value,
      minUpper |-> QueryInt(q.minUpper, QueryDefault("minUpper")).value,
      minLower |-> QueryInt(q.minLower, QueryDefault("minLower")).value,
      minNumbers |-> QueryInt(q.minNumbers, QueryDefault("minNumbers")).value,
      minSymbols |-> QueryInt(q.minSymbols, QueryDefault("minSymbols")).value,
      nan |-> { f \in NumberFields : QueryInt(q[f], QueryDefault(f)).nan },
      includeUpper |-> q.includeUpper # FalseText,
      includeLower |-> q.includeLower # FalseText,
      includeNumbers |-> q.includeNumbers # FalseText,
      includeSymbols |-> q.includeSymbols # FalseText ]

ErrLength   == "Password length must be between 8 and 32 characters"
ErrNegative == "Minimum requirements cannot be negative"
ErrFailed   == "Failed to generate password"

\* The fields of p that are NaN; a params object built elsewhere has none.
NaNFields(p) == IF "nan" \in DOMAIN p THEN p.nan ELSE { }

\* totalMin > length: false as soon as a minimum or the length is NaN.
RouteExceeds(p) ==
    /\ NaNFields(p) = { }
    /\ p.minUpper + p.minLower + p.minNumbers + p.minSymbols > p.length

Route400SignUnchecked(p) ==
    IF "length" \notin NaNFields(p) /\ (p.length < 8 \/ p.length > 32) THEN ErrLength
    ELSE IF ~p.includeUpper /\ ~p.includeLower /\ ~p.includeNumbers /\ ~p.includeSymbols
    THEN ErrNoClass
    ELSE IF RouteExceeds(p)
    THEN ErrExceed
    ELSE "none"

\* The four checks answered with status 400, in the handler's order.  Every
\* comparison with NaN is false (a NaN minimum holds 0 here: not < 0, not > 0).
Route400(p) ==
    IF "length" \notin NaNFields(p) /\ (p.length < 8 \/ p.length > 32) THEN ErrLength
    ELSE IF p.minUpper < 0 \/ p.minLower < 0 \/ p.minNumbers < 0 \/ p.minSymbols < 0
    THEN ErrNegative
    ELSE IF ~p.includeUpper /\ ~p.includeLower /\ ~p.includeNumbers /\ ~p.includeSymbols
    THEN ErrNoClass
    ELSE IF RouteExceeds(p)
    THEN ErrExceed
    ELSE "none"

\* The throws of the route's generatePasswordFromSeed.
RouteValidationError(p) ==
    IF ~p.includeUpper /\ ~p.includeLower /\ ~p.includeNumbers /\ ~p.includeSymbols
    THEN ErrNoClass
    ELSE IF RouteExceeds(p)
    THEN ErrExceed
    ELSE IF p.minUpper > 0 /\ ~p.includeUpper THEN ErrUpper
    ELSE IF p.minLower > 0 /\ ~p.includeLower THEN ErrLower
    ELSE IF p.minNumbers > 0 /\ ~p.includeNumbers THEN ErrNumbers
    ELSE IF p.minSymbols > 0 /\ ~p.includeSymbols THEN ErrSymbols
    ELSE "none"

RouteRandomByteLast(bytes) == IF Len(bytes) = 0 THEN 0 ELSE bytes[Len(bytes)]

\* randomValues(1)[0] of the route: the loop index restarts at 0 in every call, so
\* the byte is seedBytes[0 % seedBytes.length]; undefined is stored as 0.
RouteRandomByte(bytes) == IF Len(bytes) = 0 THEN 0 ELSE bytes[1]

\* One loop of n iterations appending str[randomValues(1)[0] % str.length].
RECURSIVE RouteLoop(_, _, _)
RouteLoop(str, bytes, n) ==
    IF n <= 0 THEN << >>
    ELSE CharAt(str, IndexInto(RouteRandomByte(bytes), Len(str))) \o RouteLoop(str, bytes, n - 1)

\* The shuffle loop, from index k down to 1.
RECURSIVE RouteShuffle(_, _, _)
RouteShuffle(arr, bytes, k) ==
    IF k <= 0 THEN arr
    ELSE RouteShuffle(Swap(arr, k, IndexInto(RouteRandomByte(bytes), k + 1)), bytes, k - 1)

\* The route's generatePasswordFromSeed(seed, params): the message it throws, or
\* the password it returns.  A loop over a class runs only if its minimum is
\* positive, and then the class is included; a loop bounded by NaN does not run.
RouteGenerate(s, p) ==
    LET bytes == HexDecode(s)
        e == RouteValidationError(p)
        built ==
            RouteLoop(CHARSETS.uppercase, bytes, p.minUpper)
            \o RouteLoop(CHARSETS.lowercase, bytes, p.minLower)
            \o RouteLoop(CHARSETS.numbers, bytes, p.minNumbers)
            \o RouteLoop(CHARSETS.symbols, bytes, p.minSymbols)
            \o RouteLoop(AllAvailableChars(p), bytes,
                         IF NaNFields(p) # { } THEN 0
                         ELSE p.length - (p.minUpper + p.minLower + p.minNumbers + p.minSymbols))
    IN  IF e # "none" THEN [ err |-> e, password |-> << >> ]
        ELSE [ err |-> "none", password |-> RouteShuffle(built, bytes, Len(built) - 1) ]

\* What the Orbitport service may answer with, and what crypto.randomBytes(32)
\* may produce; one value is in both, so a seed does not show where it came from.
OrbitSeeds == { MixedSeed32, << "0","b","f" >> }
LocalSeeds == { MixedSeed32, ZeroSeed32 }

\* The ways fetchOrbitPortSeed throws.
FetchFailures == { "missing API URL", "authentication failed", "response not ok", "network error" }

Serving == UNCHANGED << frame, result, parked, home >>

\* GET up to its first await: parse, then the 400-checks.
RouteGet ==
    /\ request.pc = "idle"
    /\ \E q \in Queries :
          LET p == ParseQuery(q)
              m == Route400(p)
          IN  request' =
                 IF m # "none"
                 THEN [ NoRequest EXCEPT !.pc = "responded", !.params = p,
                                         !.status = 400, !.message = m ]
                 ELSE [ NoRequest EXCEPT !.pc = "fetching", !.params = p ]
    /\ Serving

\* fetchOrbitPortSeed throws: the catch takes a local seed.
RouteFetchThrows ==
    /\ request.pc = "fetching"
    /\ \E why \in FetchFailures, s \in LocalSeeds :
          request' = [ request EXCEPT !.pc = "seeded", !.fetch = why, !.hasSeed = TRUE,
                                      !.seed = s, !.usedFallback = TRUE, !.local = TRUE ]
    /\ Serving

\* fetchOrbitPortSeed returns data.seed || data.data?.seed: a seed, or undefined
\* when the body carries none.
RouteFetchReturns ==
    /\ request.pc = "fetching"
    /\ \E has \in BOOLEAN, s \in OrbitSeeds :
          request' = [ request EXCEPT !.pc = "seeded", !.fetch = "ok", !.hasSeed = has,
                                      !.seed = IF has THEN s ELSE << >> ]
    /\ Serving

JsonResultFlagSet(pw, s, flag) ==
    [ shown |-> TRUE, password |-> pw, seed |-> s, usedFallback |-> TRUE ]

\* const result: PasswordResult = { password, seed, usedFallback }
JsonResult(pw, s, flag) ==
    [ shown |-> TRUE, password |-> pw, seed |-> s, usedFallback |-> flag ]

\* generatePasswordFromSeed(seed, params), then the response; anything thrown
\* (Buffer.from on an undefined seed included) is answered by the outer catch.
RouteRespond ==
    /\ request.pc = "seeded"
    /\ LET out == RouteGenerate(request.seed, request.params)
       IN  request' =
              IF request.hasSeed /\ out.err = "none"
              THEN [ request EXCEPT !.pc = "responded", !.status = 200,
                        !.body = JsonResult(out.password, request.seed, request.usedFallback) ]
              ELSE [ request EXCEPT !.pc = "responded", !.status = 500,
                        !.message = ErrFailed ]
    /\ Serving

\* The response is sent; the handler is ready for the next request.
RouteDone ==
    /\ request.pc = "responded"
    /\ request' = NoRequest
    /\ Serving

NextRoute ==
    RouteGet \/ RouteFetchThrows \/ RouteFetchReturns \/ RouteRespond \/ RouteDone

SpecRoute == Init /\ [][NextRoute]_vars

\* The page as it is when loaded.
PageAtLoad ==
    home = << DefaultFormData, DefaultCharacterTypes, NoResult, FALSE, "none", NoHandler, 0 >>

\* The server, then a page session: one of the two is watched at a time.
NextShown == (PageAtLoad /\ NextRoute) \/ NextPage

SpecShown == Init /\ [][NextShown]_vars

----------------------------------------------------------------------------
(* Vocabulary of the properties, stated apart from the code's own checks *)

Classes == { "uppercase", "lowercase", "numbers", "symbols" }

MinsNonNegative(p) == \A c \in Classes : Minimum(p)[c] >= 0

AnyClassEnabled(p) == \E c \in Classes : Include(p)[c]

SumOfMinimums(p) == p.minUpper + p.minLower + p.minNumbers + p.minSymbols

DisabledWithMinimum(p) == { c \in Classes : Minimum(p)[c] > 0 /\ ~Include(p)[c] }

\* None of the three validation failures applies.
PassesValidation(p) ==
    /\ AnyClassEnabled(p)
    /\ SumOfMinimums(p) <= p.length
    /\ DisabledWithMinimum(p) = {}

\* Number of characters of arr that belong to class c.
CountOf(arr, c) == Cardinality({ k \in DOMAIN arr : arr[k] \in Range(CHARSETS[c]) })

\* A well-formed hex encoding: an even number of hex digits.
IsValidHex(s) == Len(s) % 2 = 0 /\ \A k \in DOMAIN s : s[k] \in DOMAIN Unhex

\* The call is past its validation block.
PastValidation == pc \notin { "idle", "validate" }

Returned == pc = "done"

----------------------------------------------------------------------------
(* Properties *)

\* C1: for a non-empty seed and a spec with L >= 0 and minimums >= 0 that passes
\* validation, the returned password has exactly L characters.
C1_LengthIsL ==
    (Returned /\ seedBytes # << >> /\ MinsNonNegative(params))
        => Len(passwordArray) = params.length

C1_Witness ==
    /\ Returned /\ seedBytes # << >> /\ MinsNonNegative(params)
    /\ params.length = 3 /\ SumOfMinimums(params) = 2
    /\ Len(passwordArray) = 3

\* C2: in the returned (shuffled) password every enabled class has at least its
\* minimum number of characters.
C2_MinimumsMet ==
    (Returned /\ seedBytes # << >> /\ MinsNonNegative(params))
        => \A c \in Classes :
              Include(params)[c] => CountOf(passwordArray, c) >= Minimum(params)[c]

C2_Witness ==
    /\ Returned /\ seedBytes # << >>
    /\ params.minLower = 2 /\ params.minUpper = 1 /\ params.length = 4
    /\ passwordArray # password
    /\ CountOf(passwordArray, "lowercase") = 2

\* C3: every character of the returned password belongs to the alphabet of an
\* enabled class, and none to the alphabet of a disabled class.
C3_AlphabetClosure ==
    (Returned /\ seedBytes # << >>)
        => \A k \in DOMAIN passwordArray :
              /\ \E c \in Classes :
                    Include(params)[c] /\ passwordArray[k] \in Range(CHARSETS[c])
              /\ \A c \in Classes :
                    ~Include(params)[c] => passwordArray[k] \notin Range(CHARSETS[c])

C3_Witness ==
    /\ Returned /\ seedBytes # << >>
    /\ ~params.includeUpper /\ params.includeLower /\ params.includeSymbols
    /\ params.length = 3 /\ SumOfMinimums(params) = 0
    /\ CountOf(passwordArray, "symbols") >= 1
    /\ CountOf(passwordArray, "lowercase") >= 1

\* C4: no password returned for a spec with minimums >= 0 contains one of the
\* ambiguous glyphs O, l, 0, 1.
C4_NoAmbiguousGlyphs ==
    (Returned /\ MinsNonNegative(params)) => \A k \in DOMAIN passwordArray : passwordArray[k] \notin { "O", "l", "0", "1" }

\* C5 as stated: every call that returns a password has drawn exactly 2L-1 bytes.
C5_Draws2LMinus1 ==
    Returned => position = 2 * params.length - 1

\* C5 amended: with minimums >= 0, a call that returns a password has drawn
\* exactly 2L-1 bytes when L >= 1, and no byte when L = 0.
C5_DrawsAmended ==
    (Returned /\ MinsNonNegative(params))
        => position = (IF params.length >= 1 THEN 2 * params.length - 1 ELSE 0)

C5_Witness ==
    /\ Returned /\ MinsNonNegative(params)
    /\ params.length = 3 /\ position = 5
    /\ ~params.includeNumbers /\ params.minUpper = 1

\* C6: a call made again with the same seed and the same spec ends as the first
\* did: the same password, or the same error.
C6_Deterministic ==
    (Finished /\ last.called /\ last.seed = seed /\ last.params = params)
        => /\ pc = last.pc
           /\ err = last.err
           /\ passwordArray = last.out

C6_Witness ==
    /\ Returned /\ last.called /\ last.seed = seed /\ last.params = params
    /\ Len(seedBytes) >= 2
    /\ Len(passwordArray) >= 3
    /\ passwordArray = last.out

\* C7: with no class enabled the call fails with the no-class-selected error,
\* whatever the minimums and the length are, and returns no password.
C7_NoClassSelected ==
    (PastValidation /\ ~AnyClassEnabled(params))
        => /\ pc = "error"
           /\ err = ErrNoClass
           /\ password = << >> /\ passwordArray = << >>

C7_Witness ==
    /\ pc = "error" /\ err = ErrNoClass
    /\ ~AnyClassEnabled(params)
    /\ SumOfMinimums(params) > params.length
    /\ params.minUpper > 0

\* C8: with a class enabled and the sum of the minimums above L the call fails
\* with the minimums-exceed-length error, also when a disabled class has a
\* positive minimum; with the sum <= L that error never occurs.
C8_MinimumsExceedLength ==
    /\ (PastValidation /\ AnyClassEnabled(params) /\ SumOfMinimums(params) > params.length)
          => (pc = "error" /\ err = ErrExceed)
    /\ SumOfMinimums(params) <= params.length => err # ErrExceed

C8_Witness ==
    /\ pc = "error" /\ err = ErrExceed
    /\ AnyClassEnabled(params)
    /\ DisabledWithMinimum(params) # {}

\* The minimum-without-class error of class c.
ErrorOfClass(c) ==
    CASE c = "uppercase" -> ErrUpper
      [] c = "lowercase" -> ErrLower
      [] c = "numbers"   -> ErrNumbers
      [] c = "symbols"   -> ErrSymbols

\* The first class, in the order Upper, Lower, Digit, Symbol, that is disabled
\* with a positive minimum.
FirstDisabledWithMinimum(p) ==
    ClassOrder[CHOOSE k \in 1..4 :
        /\ ClassOrder[k] \in DisabledWithMinimum(p)
        /\ \A m \in 1..(k - 1) : ClassOrder[m] \notin DisabledWithMinimum(p)]

\* C9: with a class enabled, the sum of the minimums <= L and a disabled class
\* with a positive minimum, the call fails with the minimum-without-class error of
\* the first such class; a spec with none of the three violations raises no error.
C9_MinimumWithoutClass ==
    /\ (/\ PastValidation
        /\ AnyClassEnabled(params)
        /\ SumOfMinimums(params) <= params.length
        /\ DisabledWithMinimum(params) # {})
          => (pc = "error" /\ err = ErrorOfClass(FirstDisabledWithMinimum(params)))
    /\ (PastValidation /\ PassesValidation(params)) => (pc # "error" /\ err = "none")

C9_Witness ==
    /\ pc = "error" /\ err = ErrUpper
    /\ AnyClassEnabled(params)
    /\ SumOfMinimums(params) <= params.length
    /\ { "uppercase", "lowercase" } \subseteq DisabledWithMinimum(params)

\* C10: a seed that decodes to zero bytes, or is not a valid hex encoding, yields
\* no password.
C10_InvalidSeedRejected ==
    Returned => (seedBytes # << >> /\ IsValidHex(seed))

\* C11: the position counter of a generator counts the bytes it has returned,
\* and the k-th byte returned (k = 0, 1, ...) is seed[k mod len(seed)], however
\* the draws are split into randomValues(n) calls.
C11_CyclicStream ==
    (pc # "idle" /\ seedBytes # << >>)
        => /\ position = Len(drawn)
           /\ \A k \in 0..(Len(drawn) - 1) :
                 drawn[k + 1] = seedBytes[(k % Len(seedBytes)) + 1]
           /\ pc = "stream" =>
                 \A k \in 1..Len(result) :
                     result[k] = drawn[Len(drawn) - Len(result) + k]

C11_Witness ==
    /\ pc = "stream"
    /\ Len(seedBytes) = 3
    /\ Len(drawn) = 5 /\ Len(result) = 2
    /\ drawn[4] = seedBytes[1] /\ drawn[5] = seedBytes[2]
    /\ seedBytes[1] # seedBytes[2]

\* The spec of the scenario: L = 8, two uppercase required, all classes enabled.
ScenarioSpec ==
    [ length |-> 8, minUpper |-> 2, minLower |-> 0, minNumbers |-> 0, minSymbols |-> 0,
      includeUpper |-> TRUE, includeLower |-> TRUE,
      includeNumbers |-> TRUE, includeSymbols |-> TRUE ]

\* C12: with a seed of 32 zero bytes and that spec every minimum draw and every
\* fill draw selects index 0 ('A'), every swap uses j = 0, and the password
\* returned is "AAAAAAAA".
C12_ZeroSeedScenario ==
    (pc # "idle" /\ seed = ZeroSeed32 /\ params = ScenarioSpec)
        => /\ pc # "error"
           /\ \A k \in DOMAIN drawn : drawn[k] = 0
           /\ randomIndex \in { -1, 0 } /\ j \in { -1, 0 }
           /\ \A k \in DOMAIN password : password[k] = "A"
           /\ (pc = "minLower" => password = << "A", "A" >> /\ randomIndex = 0)
           /\ (pc = "done" =>
                 /\ passwordArray = << "A","A","A","A","A","A","A","A" >>
                 /\ randomIndex = 0 /\ j = 0
                 /\ Len(drawn) = 15)

C12_Witness ==
    /\ pc = "done" /\ seed = ZeroSeed32 /\ params = ScenarioSpec
    /\ Len(seedBytes) = 32
    /\ passwordArray = << "A","A","A","A","A","A","A","A" >>
    /\ j = 0

\* The class whose minimum loop is at pc.
StageClass(stage) ==
    CASE stage = "minUpper"   -> "uppercase"
      [] stage = "minLower"   -> "lowercase"
      [] stage = "minNumbers" -> "numbers"
      [] stage = "minSymbols" -> "symbols"

\* Number of characters of the alphabets of the enabled classes.
PoolSize(p) ==
    (IF p.includeUpper THEN Len(CHARSETS.uppercase) ELSE 0) +
    (IF p.includeLower THEN Len(CHARSETS.lowercase) ELSE 0) +
    (IF p.includeNumbers THEN Len(CHARSETS.numbers) ELSE 0) +
    (IF p.includeSymbols THEN Len(CHARSETS.symbols) ELSE 0)

\* A call with a non-empty seed and a spec (L >= 0, minimums >= 0) that
\* triggers none of the three validation failures.
SoundCall ==
    /\ pc \notin { "idle", "stream" }
    /\ seedBytes # << >>
    /\ MinsNonNegative(params)
    /\ PassesValidation(params)

\* C13: such a call raises no error and is never left without a next statement
\* before it returns; every alphabet index it computes lies within the alphabet,
\* so each draw appends exactly one character of an alphabet.
C13_NoOtherFailure ==
    SoundCall =>
        /\ pc # "error" /\ err = "none"
        /\ Running => ENABLED Run
        /\ (pc \in MinStages /\ i > 0)
              => randomIndex \in 0..(Len(CHARSETS[StageClass(pc)]) - 1)
        /\ (pc = "fill" /\ i > 0) => randomIndex \in 0..(PoolSize(params) - 1)
        /\ (pc \in MinStages \cup { "fill" }) => Len(password) = Len(drawn)
        /\ \A k \in DOMAIN password :
              \E c \in Classes : password[k] \in Range(CHARSETS[c])

C13_Witness ==
    /\ SoundCall /\ pc = "done"
    /\ params.length = 4 /\ SumOfMinimums(params) = 2
    /\ randomIndex > 20
    /\ Len(passwordArray) = 4

Max0(n) == IF n > 0 THEN n ELSE 0

\* Statements left before the call is over, as a rank of the loop it is in and
\* the iterations that loop still has to make.
StageRank ==
    CASE pc = "validate"   -> 7
      [] pc = "minUpper"   -> 6
      [] pc = "minLower"   -> 5
      [] pc = "minNumbers" -> 4
      [] pc = "minSymbols" -> 3
      [] pc = "fill"       -> 2
      [] pc = "shuffle"    -> 1
      [] OTHER             -> 0

IterationsLeft ==
    CASE pc \in MinStages -> Max0(Minimum(params)[StageClass(pc)] - i)
      [] pc = "fill"      -> Max0(params.length - SumOfMinimums(params) - i)
      [] pc = "shuffle"   -> Max0(i)
      [] OTHER            -> 0

Measure == StageRank * (2 * MaxLen + 10) + IterationsLeft

ValidationErrors == { ErrNoClass, ErrExceed, ErrUpper, ErrLower, ErrNumbers, ErrSymbols }

C19_ValidationBeforeDrawing ==
    /\ pc = "validate" => (drawn = << >> /\ position = 0 /\ password = << >>)
    /\ pc = "error" =>
          /\ err \in ValidationErrors
          /\ position = 0 /\ drawn = << >>
          /\ password = << >> /\ passwordArray = << >>
          /\ randomIndex = -1 /\ j = -1

C19_Witness ==
    /\ pc = "error" /\ err = ErrNumbers
    /\ Len(seedBytes) = 3
    /\ params.minUpper = 2 /\ params.includeUpper
    /\ position = 0 /\ password = << >>

\* The class that owns buffer position k (from 0) among the minimum draws.
OwnerClass(p, k) ==
    IF k < p.minUpper THEN "uppercase"
    ELSE IF k < p.minUpper + p.minLower THEN "lowercase"
    ELSE IF k < p.minUpper + p.minLower + p.minNumbers THEN "numbers"
    ELSE "symbols"

\* alphabet[seed[k mod len(seed)] mod |alphabet|]
ExpectedChar(bytes, alphabet, k) ==
    alphabet[(bytes[(k % Len(bytes)) + 1] % Len(alphabet)) + 1]

\* C20: before the shuffle the first (sum of minimums) characters of the buffer
\* are the minimum draws in the order Upper, Lower, Digit, Symbol, the character
\* at position k being alphabet[seed[k mod len] mod |alphabet|] for the class that
\* owns k; each such draw consumes exactly one byte.
C20_MinimumDraws ==
    (seedBytes # << >> /\ MinsNonNegative(params))
        => /\ pc \in MinStages => (position = Len(password) /\ Len(drawn) = Len(password))
           /\ (pc = "fill" /\ i = 0) =>
                 (Len(password) = SumOfMinimums(params) /\ position = SumOfMinimums(params))
           /\ pc \in { "fill", "shuffle", "done" } =>
                 /\ Len(password) >= SumOfMinimums(params)
                 /\ \A k \in 0..(SumOfMinimums(params) - 1) :
                       password[k + 1] =
                           ExpectedChar(seedBytes, CHARSETS[OwnerClass(params, k)], k)

C20_Witness ==
    /\ pc = "shuffle" /\ Len(seedBytes) = 3 /\ MinsNonNegative(params)
    /\ params.minUpper = 1 /\ params.minLower = 1 /\ params.minSymbols = 2
    /\ params.length = 4
    /\ password = << "F", "l", "-", "#" >>

\* C16: a call owns its cursor: run again with another call's draws interleaved
\* with its own in any order, or followed by another call, it ends as it ended
\* when it ran alone, having drawn the same bytes from position 0 on.
C16_OwnCursor ==
    /\ (Finished /\ last.called)
          => /\ pc = last.pc /\ err = last.err
             /\ passwordArray = last.out
             /\ position = last.position
    /\ (Running \/ Finished) => position = Len(drawn)
    /\ parked \notin { NoFrame, Over } => parked.position = Len(parked.drawn)

C16_Witness ==
    /\ pc = "done" /\ last.called /\ passwordArray = last.out
    /\ Len(passwordArray) = 2 /\ Len(seedBytes) = 3
    /\ parked \notin { NoFrame, Over }
    /\ parked.pc = "shuffle" /\ parked.position = 2 /\ parked.seed # seed
    /\ parked.password # password

\* C14: whatever the user did to the form, handleGenerate hands the generator a
\* length within the slider's range and four minimums that are not negative.
C14_RangesEnforced ==
    handler.pc = "generating"
        => /\ params.length \in SliderMin..SliderMax
           /\ MinsNonNegative(params)

\* C15: when fetchOrbitPortSeed throws, the request is answered with a password
\* generated from a local 32-byte seed and usedFallback = true; and a response
\* carries usedFallback = true exactly when its seed was made locally.
C15_FallbackAlwaysServes ==
    /\ (request.pc = "responded" /\ request.fetch \in FetchFailures)
          => /\ request.status = 200
             /\ request.body.usedFallback
             /\ request.body.seed \in LocalSeeds
             /\ Len(HexDecode(request.body.seed)) = 32
             /\ request.body.password = RouteGenerate(request.body.seed, request.params).password
    /\ (request.pc = "responded" /\ request.status = 200)
          => (request.body.usedFallback <=> request.local)

\* C18: a result that is shown carries the seed the generator was given for the
\* password beside it, and the flag that came with that seed: in the route's
\* JSON, and in the page's result state from the moment it is set.
C18_ShownSeedIsUsedSeed ==
    /\ [](request.pc = "responded" /\ request.status = 200
            => /\ request.body.seed = request.seed
               /\ request.body.usedFallback = request.usedFallback
               /\ request.body.password = RouteGenerate(request.seed, request.params).password)
    /\ [](pageResult.shown
            => /\ handler.seedResult.hasData
               /\ pageResult.seed = handler.seedResult.data
               /\ pageResult.usedFallback = handler.seedResult.usedFallback)
    /\ [][ (~pageResult.shown /\ pageResult'.shown)
              => /\ handler.pc = "generating" /\ pc = "done"
                 /\ pageResult'.seed = seed
                 /\ pageResult'.password = passwordArray
                 /\ pageResult'.usedFallback = handler.seedResult.usedFallback ]_vars

C18_Witness ==
    /\ pageResult.shown
    /\ pageResult.usedFallback
    /\ pageResult.seed = << "f","f","0","b","2","a" >>
    /\ Len(pageResult.password) = 8
    /\ formData.minSymbols = 0 /\ ~characterTypes.symbols

\* The pool as the property words it: the alphabets of the enabled classes, in
\* the order Upper, Lower, Digit, Symbol.
Pool(p) ==
    (IF p.includeUpper THEN CHARSETS.uppercase ELSE << >>)
    \o (IF p.includeLower THEN CHARSETS.lowercase ELSE << >>)
    \o (IF p.includeNumbers THEN CHARSETS.numbers ELSE << >>)
    \o (IF p.includeSymbols THEN CHARSETS.symbols ELSE << >>)

\* Characters the minimum loops have appended when the fill loop starts.
MinPart(p) == Max0(p.minUpper) + Max0(p.minLower) + Max0(p.minNumbers) + Max0(p.minSymbols)

\* C21: the fill loop appends exactly L - (sum of minimums) characters, the one
\* at buffer position k being pool[byte mod |pool|] for the stream byte drawn for
\* it, the next one of the stream; the pool holds the enabled classes only.
C21_FillFromPool ==
    /\ pc = "fill" => (Len(password) = MinPart(params) + i /\ i <= params.length - SumOfMinimums(params))
    /\ pc \in { "shuffle", "done" }
          => Len(password) = MinPart(params) + (params.length - SumOfMinimums(params))
    /\ pc \in { "fill", "shuffle", "done" }
          => \A k \in MinPart(params)..(Len(password) - 1) :
                /\ password[k + 1] = Pool(params)[(drawn[k + 1] % Len(Pool(params))) + 1]
                /\ seedBytes # << >> => drawn[k + 1] = seedBytes[(k % Len(seedBytes)) + 1]

C21_Witness ==
    /\ pc = "shuffle" /\ i = 2
    /\ seedBytes = << 255, 11, 42 >>
    /\ params.length = 3 /\ params.minUpper = 1 /\ SumOfMinimums(params) = 1
    /\ params.includeUpper /\ ~params.includeLower /\ ~params.includeNumbers
    /\ params.includeSymbols
    /\ password = << "F", "L", "G" >>

Occurrences(arr, c) == Cardinality({ k \in DOMAIN arr : arr[k] = c })

\* Same length, same characters, each as often.
IsPermutation(a, b) ==
    /\ Len(a) = Len(b)
    /\ \A c \in Range(a) \cup Range(b) : Occurrences(a, c) = Occurrences(b, c)

HasRepeat(bytes) == \E a, b \in DOMAIN bytes : a < b /\ bytes[a] = bytes[b]

ExpectedRejection(p) ==
    LET numeric == NaNFields(p) = { }
    IN  IF "length" \notin NaNFields(p) /\ p.length \notin 8..32 THEN ErrLength
        ELSE IF ~MinsNonNegative(p) THEN ErrNegative
        ELSE IF ~AnyClassEnabled(p) THEN ErrNoClass
        ELSE IF numeric /\ SumOfMinimums(p) > p.length THEN ErrExceed
        ELSE "none"

C25_UncheckedHasNoMinimum ==
    /\ [](\A c \in Classes : ~characterTypes[c] => formData[FieldMap[c]] = 0)
    /\ [](handler.pc = "generating"
            => /\ DisabledWithMinimum(params) = { }
               /\ err \notin { ErrUpper, ErrLower, ErrNumbers, ErrSymbols })
    /\ [][ \A c \in Classes :
              /\ (characterTypes[c] /\ ~characterTypes'[c]) => formData'[FieldMap[c]] = 0
              /\ (~characterTypes[c] /\ ~characterTypes'[c])
                    => formData'[FieldMap[c]] = formData[FieldMap[c]] ]_vars

C25_Witness ==
    /\ handler.pc = "generating" /\ pc = "done"
    /\ ~characterTypes.symbols /\ formData.minSymbols = 0
    /\ ~params.includeSymbols /\ params.minSymbols = 0
    /\ params.minUpper = 2 /\ params.length = 16
    /\ Len(passwordArray) = 16

\* C26: the route's generatePasswordFromSeed and the library's agree: on the
\* seed and params of any library call with minimums >= 0 the route's function
\* returns the password the library returned, or throws the error it threw.
C26_RouteEqualsLibrary ==
    (Finished /\ MinsNonNegative(params))
        => /\ pc = "done" => RouteGenerate(seed, params) = [ err |-> "none", password |-> passwordArray ]
           /\ pc = "error" => RouteGenerate(seed, params).err = err

\* Seeds that share the first byte of s and nothing after it.
SameFirstByte(s) ==
    { SubSeq(s, 1, 2),
      SubSeq(s, 1, 2) \o << "0","0" >>,
      SubSeq(s, 1, 2) \o << "a","7","1","3" >> }

\* C27: in the route every draw is seed byte 0, so the password of a response is
\* the one any seed with the same first byte gives for the same params, and
\* every character of it sits at index (byte 0 mod alphabet size) of an alphabet.
C27_FirstByteDecides ==
    (request.pc = "responded" /\ request.status = 200)
        => LET first == HexDecode(SubSeq(request.seed, 1, 2))[1]
               pool == Pool(request.params)
               picks == { CHARSETS[c][(first % Len(CHARSETS[c])) + 1] : c \in Classes }
                           \cup { pool[(first % Len(pool)) + 1] }
           IN  /\ RouteRandomByte(HexDecode(request.seed)) = first
               /\ \A s \in SameFirstByte(request.seed) :
                     RouteGenerate(s, request.params) =
                         [ err |-> "none", password |-> request.body.password ]
               /\ \A k \in DOMAIN request.body.password :
                     request.body.password[k] \in picks

C27_Witness ==
    /\ request.pc = "responded" /\ request.status = 200
    /\ request.seed = MixedSeed32
    /\ request.params.length = 8 /\ SumOfMinimums(request.params) = 0
    /\ NaNFields(request.params) = { }
    /\ request.body.password = << "u","u","u","u","u","u","u","u" >>

\* What the route's four checks are to let through, in the property's words.
PassesRouteChecks(p) ==
    /\ NaNFields(p) = { }
    /\ p.length \in 8..32
    /\ MinsNonNegative(p)
    /\ AnyClassEnabled(p)
    /\ SumOfMinimums(p) <= p.length

\* C28: a request that passes the four 400-checks and gets a seed, from Orbitport
\* or from the fallback, is answered 200 with a password of the requested
\* length; never 500, a disabled class with a positive minimum included.
C28_CheckedRequestSucceeds ==
    (request.pc = "responded" /\ PassesRouteChecks(request.params) /\ request.hasSeed)
        => /\ request.status = 200
           /\ Len(request.body.password) = request.params.length

\* C29: with a negative minimum the library rejects the spec or returns exactly
\* L characters.
C29_NegativeMinimumKeepsLength ==
    (pc = "done" /\ ~MinsNonNegative(params)) => Len(passwordArray) = params.length

\* C30: handleGenerate starts only while isLoading is false and the form is
\* valid; while it is in flight isLoading is true and result and error are null;
\* the step that ends it, after a result or a throw, leaves isLoading false and
\* exactly one of result and error set; and a started one does end.
C30_OneGenerationAtATime ==
    /\ [](handler.pc # "rest" <=> isLoading)
    /\ [](isLoading => (~pageResult.shown /\ error = "none"))
    /\ [](~(pageResult.shown /\ error # "none"))
    /\ [][ (handler.pc = "rest" /\ handler'.pc # "rest")
              => (~isLoading /\ isValid /\ handler'.pc = "awaitSeed") ]_vars
    /\ [][ (handler.pc # "rest" /\ handler'.pc = "rest")
              => /\ ~isLoading'
                 /\ pageResult'.shown # (error' # "none")
                 /\ pageResult'.shown => (handler.pc = "generating" /\ pc = "done") ]_vars
    /\ (isLoading ~> ~isLoading)

C30_Witness ==
    /\ handler.pc = "rest" /\ ~isLoading
    /\ error = ErrSeedFetch /\ ~pageResult.shown
    /\ edits = 2 /\ formData.length = 8 /\ ~characterTypes.numbers

====
